---- MODULE Spec2Model ----
(***************************************************************************)
(* Barrier instruction validation of SPIRV-Tools                           *)
(* (source/val/validate_barriers.cpp): the memory-semantics rule table,    *)
(* the per-opcode dispatcher BarriersPass, and the deferred                *)
(* execution-model limitations BarriersPass registers on functions.        *)
(*                                                                         *)
(* A uint32_t bitmask is modelled as the set of the positions of its set   *)
(* bits: `a & b` is the intersection, `a | b` the union, a non-zero value  *)
(* a non-empty set, and CountSetBits the cardinality.                      *)
(***************************************************************************)
EXTENDS Integers, Sequences, FiniteSets

VARIABLES
  memory_model,   \* _.memory_model()
  capabilities,   \* the set _.HasCapability() queries
  target_env,     \* _.context()->target_env
  registry,       \* per function: the registered execution-model limitations
  ninst,          \* instructions handed to BarriersPass so far
  last,           \* the last BarriersPass call: instruction, result, checks run
  finalized,      \* functions whose limitations have been evaluated
  fin,            \* the last finalize call: function, models, diagnostics
  sem             \* the last direct ValidateMemorySemantics call

vars == <<memory_model, capabilities, target_env, registry, ninst, last,
          finalized, fin, sem>>

-----------------------------------------------------------------------------
(* Bounds of the model *)

\* Instructions handed to BarriersPass in one run.
MaxInsts == 2
\* Largest set of execution models a function is reachable from.
MaxReach == 1

-----------------------------------------------------------------------------
(* Memory semantics bits, by position, and their masks *)

Acquire == 1
Release == 2
AcquireRelease == 3
SequentiallyConsistent == 4
UniformMemory == 6
SubgroupMemory == 7
WorkgroupMemory == 8
CrossWorkgroupMemory == 9
AtomicCounterMemory == 10
ImageMemory == 11
OutputMemoryKHR == 12
MakeAvailableKHR == 13
MakeVisibleKHR == 14
\* A bit no rule of the validator reads.
UnusedBit == 15

SpvMemorySemanticsAcquireMask == {Acquire}
SpvMemorySemanticsReleaseMask == {Release}
SpvMemorySemanticsAcquireReleaseMask == {AcquireRelease}
SpvMemorySemanticsSequentiallyConsistentMask == {SequentiallyConsistent}
SpvMemorySemanticsUniformMemoryMask == {UniformMemory}
SpvMemorySemanticsSubgroupMemoryMask == {SubgroupMemory}
SpvMemorySemanticsWorkgroupMemoryMask == {WorkgroupMemory}
SpvMemorySemanticsCrossWorkgroupMemoryMask == {CrossWorkgroupMemory}
SpvMemorySemanticsAtomicCounterMemoryMask == {AtomicCounterMemory}
SpvMemorySemanticsImageMemoryMask == {ImageMemory}
SpvMemorySemanticsOutputMemoryKHRMask == {OutputMemoryKHR}
SpvMemorySemanticsMakeAvailableKHRMask == {MakeAvailableKHR}
SpvMemorySemanticsMakeVisibleKHRMask == {MakeVisibleKHR}

\* value & mask, as a C++ condition
And(value, mask) == (value \cap mask) # {}

CountSetBits(word) == Cardinality(word)

-----------------------------------------------------------------------------
(* The validation context *)

MemoryModels == {"GLSL450", "VulkanKHR"}
SpvMemoryModelVulkanKHR == "VulkanKHR"

SpvCapabilityShader == "Shader"
SpvCapabilityVulkanMemoryModelKHR == "VulkanMemoryModelKHR"
Capabilities == {SpvCapabilityShader, SpvCapabilityVulkanMemoryModelKHR}

HasCapability(cap) == cap \in capabilities

TargetEnvs == {"UNIVERSAL_1_2", "UNIVERSAL_1_3", "VULKAN_1_0", "VULKAN_1_1"}

SPV_SPIRV_VERSION_WORD(major, minor) == major * 65536 + minor * 256

spvVersionForTargetEnv(env) ==
  CASE env = "UNIVERSAL_1_2" -> SPV_SPIRV_VERSION_WORD(1, 2)
    [] env = "UNIVERSAL_1_3" -> SPV_SPIRV_VERSION_WORD(1, 3)
    [] env = "VULKAN_1_0" -> SPV_SPIRV_VERSION_WORD(1, 0)
    [] env = "VULKAN_1_1" -> SPV_SPIRV_VERSION_WORD(1, 3)

spvIsVulkanEnv(env) == env \in {"VULKAN_1_0", "VULKAN_1_1"}

-----------------------------------------------------------------------------
(* Opcodes and operands *)

SpvOpControlBarrier == "OpControlBarrier"
SpvOpMemoryBarrier == "OpMemoryBarrier"
SpvOpNamedBarrierInitialize == "OpNamedBarrierInitialize"
SpvOpMemoryNamedBarrier == "OpMemoryNamedBarrier"
SpvOpNop == "OpNop"

\* The opcodes whose case reaches ValidateMemorySemantics.
SemanticsOpcodes ==
  {SpvOpControlBarrier, SpvOpMemoryBarrier, SpvOpMemoryNamedBarrier}

\* The bits ValidateMemorySemantics reads, and one bit it never looks at.
SemanticsBits ==
  {Acquire, Release, AcquireRelease, SequentiallyConsistent, UniformMemory,
   SubgroupMemory, WorkgroupMemory, CrossWorkgroupMemory, AtomicCounterMemory,
   ImageMemory, OutputMemoryKHR, MakeAvailableKHR, MakeVisibleKHR}
OtherBits == {UnusedBit}

\* What an id used as Memory Semantics can be defined by: something that is
\* no 32-bit int, a 32-bit int that is no constant, a 32-bit int constant.
NotInt32 == [kind |-> "not_int32", value |-> {}]
NonConstInt32 == [kind |-> "int32", value |-> {}]
ConstInt32(v) == [kind |-> "const_int32", value |-> v]

\* _.EvalInt32IfConst(id): <<is_int32, is_const_int32, value>>
EvalInt32IfConst(id) ==
  CASE id.kind = "not_int32" -> <<FALSE, FALSE, {}>>
    [] id.kind = "int32" -> <<TRUE, FALSE, {}>>
    [] id.kind = "const_int32" -> <<TRUE, TRUE, id.value>>

-----------------------------------------------------------------------------
(* Results: SPV_SUCCESS, or the diagnostic, named by its message *)

SPV_SUCCESS == "SPV_SUCCESS"

ErrNotInt32 == "expected Memory Semantics to be a 32-bit int"
ErrNotConstant ==
  "Memory Semantics ids must be OpConstant when Shader capability is present"
ErrSeqCstVulkan ==
  "SequentiallyConsistent memory semantics cannot be used with the VulkanKHR memory model."
ErrOutputMemoryCap ==
  "Memory Semantics OutputMemoryKHR requires capability VulkanMemoryModelKHR"
ErrMakeAvailableCap ==
  "Memory Semantics MakeAvailableKHR requires capability VulkanMemoryModelKHR"
ErrMakeVisibleCap ==
  "Memory Semantics MakeVisibleKHR requires capability VulkanMemoryModelKHR"
ErrOrderingBits ==
  "Memory Semantics can have at most one of the following bits set: Acquire, Release, AcquireRelease or SequentiallyConsistent"
ErrMakeAvailableOrder ==
  "MakeAvailableKHR Memory Semantics also requires either Release or AcquireRelease Memory Semantics"
ErrMakeVisibleOrder ==
  "MakeVisibleKHR Memory Semantics also requires either Acquire or AcquireRelease Memory Semantics"
ErrVulkanOrder ==
  "Vulkan specification requires Memory Semantics to have one of the following bits set: Acquire, Release, AcquireRelease or SequentiallyConsistent"
ErrVulkanStorageClass ==
  "expected Memory Semantics to include a Vulkan-supported storage class"
ErrVulkanStorageClassIfNotNone ==
  "expected Memory Semantics to include a Vulkan-supported storage class if Memory Semantics is not None"
ErrStorageClass == "expected Memory Semantics to include a storage class"

-----------------------------------------------------------------------------
(* ValidateMemorySemantics *)

\* Variant: SequentiallyConsistent left out of the ordering bits counted.
MemoryOrderMask_NoSeqCst ==
  SpvMemorySemanticsAcquireMask \cup SpvMemorySemanticsReleaseMask \cup
  SpvMemorySemanticsAcquireReleaseMask

MemoryOrderMask ==
  SpvMemorySemanticsAcquireMask \cup SpvMemorySemanticsReleaseMask \cup
  SpvMemorySemanticsAcquireReleaseMask \cup
  SpvMemorySemanticsSequentiallyConsistentMask

\* What MakeAvailableKHR, and what MakeVisibleKHR, must come with.
\* Variant: MakeAvailableKHR accepted with Release only.
MakeAvailableOrderMask_ReleaseOnly == SpvMemorySemanticsReleaseMask

MakeAvailableOrderMask ==
  SpvMemorySemanticsReleaseMask \cup SpvMemorySemanticsAcquireReleaseMask

MakeVisibleOrderMask ==
  SpvMemorySemanticsAcquireMask \cup SpvMemorySemanticsAcquireReleaseMask

VulkanStorageClassMask ==
  SpvMemorySemanticsUniformMemoryMask \cup
  SpvMemorySemanticsWorkgroupMemoryMask \cup
  SpvMemorySemanticsImageMemoryMask \cup
  SpvMemorySemanticsOutputMemoryKHRMask

StorageClassMask ==
  SpvMemorySemanticsUniformMemoryMask \cup
  SpvMemorySemanticsSubgroupMemoryMask \cup
  SpvMemorySemanticsWorkgroupMemoryMask \cup
  SpvMemorySemanticsCrossWorkgroupMemoryMask \cup
  SpvMemorySemanticsAtomicCounterMemoryMask \cup
  SpvMemorySemanticsImageMemoryMask \cup
  SpvMemorySemanticsOutputMemoryKHRMask

\* Variant: the paired-ordering-bit checks moved ahead of the capability
\* checks.
ValidateConstantSemantics_PairedFirst(opcode, value) ==
  LET num_memory_order_set_bits == CountSetBits(value \cap MemoryOrderMask)
  IN
  IF memory_model = SpvMemoryModelVulkanKHR /\
     And(value, SpvMemorySemanticsSequentiallyConsistentMask)
  THEN ErrSeqCstVulkan
  ELSE IF And(value, SpvMemorySemanticsMakeAvailableKHRMask) /\
          ~And(value, MakeAvailableOrderMask)
  THEN ErrMakeAvailableOrder
  ELSE IF And(value, SpvMemorySemanticsMakeVisibleKHRMask) /\
          ~And(value, MakeVisibleOrderMask)
  THEN ErrMakeVisibleOrder
  ELSE IF And(value, SpvMemorySemanticsOutputMemoryKHRMask) /\
          ~HasCapability(SpvCapabilityVulkanMemoryModelKHR)
  THEN ErrOutputMemoryCap
  ELSE IF And(value, SpvMemorySemanticsMakeAvailableKHRMask) /\
          ~HasCapability(SpvCapabilityVulkanMemoryModelKHR)
  THEN ErrMakeAvailableCap
  ELSE IF And(value, SpvMemorySemanticsMakeVisibleKHRMask) /\
          ~HasCapability(SpvCapabilityVulkanMemoryModelKHR)
  THEN ErrMakeVisibleCap
  ELSE IF num_memory_order_set_bits > 1
  THEN ErrOrderingBits
  ELSE IF spvIsVulkanEnv(target_env) /\ opcode = SpvOpMemoryBarrier /\
          num_memory_order_set_bits = 0
  THEN ErrVulkanOrder
  ELSE IF spvIsVulkanEnv(target_env) /\ opcode = SpvOpMemoryBarrier /\
          ~And(value, VulkanStorageClassMask)
  THEN ErrVulkanStorageClass
  ELSE IF And(value, SpvMemorySemanticsMakeAvailableKHRMask \cup
                     SpvMemorySemanticsMakeVisibleKHRMask) /\
          ~And(value, StorageClassMask)
  THEN ErrStorageClass
  ELSE SPV_SUCCESS

\* Variant: the memory-model check moved behind the capability checks.
ValidateConstantSemantics_CapabilityFirst(opcode, value) ==
  LET num_memory_order_set_bits == CountSetBits(value \cap MemoryOrderMask)
  IN
  IF And(value, SpvMemorySemanticsOutputMemoryKHRMask) /\
          ~HasCapability(SpvCapabilityVulkanMemoryModelKHR)
  THEN ErrOutputMemoryCap
  ELSE IF And(value, SpvMemorySemanticsMakeAvailableKHRMask) /\
          ~HasCapability(SpvCapabilityVulkanMemoryModelKHR)
  THEN ErrMakeAvailableCap
  ELSE IF And(value, SpvMemorySemanticsMakeVisibleKHRMask) /\
          ~HasCapability(SpvCapabilityVulkanMemoryModelKHR)
  THEN ErrMakeVisibleCap
  ELSE IF memory_model = SpvMemoryModelVulkanKHR /\
     And(value, SpvMemorySemanticsSequentiallyConsistentMask)
  THEN ErrSeqCstVulkan
  ELSE IF num_memory_order_set_bits > 1
  THEN ErrOrderingBits
  ELSE IF And(value, SpvMemorySemanticsMakeAvailableKHRMask) /\
          ~And(value, MakeAvailableOrderMask)
  THEN ErrMakeAvailableOrder
  ELSE IF And(value, SpvMemorySemanticsMakeVisibleKHRMask) /\
          ~And(value, MakeVisibleOrderMask)
  THEN ErrMakeVisibleOrder
  ELSE IF spvIsVulkanEnv(target_env) /\ opcode = SpvOpMemoryBarrier /\
          num_memory_order_set_bits = 0
  THEN ErrVulkanOrder
  ELSE IF spvIsVulkanEnv(target_env) /\ opcode = SpvOpMemoryBarrier /\
          ~And(value, VulkanStorageClassMask)
  THEN ErrVulkanStorageClass
  ELSE IF And(value, SpvMemorySemanticsMakeAvailableKHRMask \cup
                     SpvMemorySemanticsMakeVisibleKHRMask) /\
          ~And(value, StorageClassMask)
  THEN ErrStorageClass
  ELSE SPV_SUCCESS

\* Variant: the control barrier's storage class check, compiled out in the
\* source, compiled in.
ValidateConstantSemantics_ControlBarrierCheck(opcode, value) ==
  LET num_memory_order_set_bits == CountSetBits(value \cap MemoryOrderMask)
  IN
  IF memory_model = SpvMemoryModelVulkanKHR /\
     And(value, SpvMemorySemanticsSequentiallyConsistentMask)
  THEN ErrSeqCstVulkan
  ELSE IF And(value, SpvMemorySemanticsOutputMemoryKHRMask) /\
          ~HasCapability(SpvCapabilityVulkanMemoryModelKHR)
  THEN ErrOutputMemoryCap
  ELSE IF And(value, SpvMemorySemanticsMakeAvailableKHRMask) /\
          ~HasCapability(SpvCapabilityVulkanMemoryModelKHR)
  THEN ErrMakeAvailableCap
  ELSE IF And(value, SpvMemorySemanticsMakeVisibleKHRMask) /\
          ~HasCapability(SpvCapabilityVulkanMemoryModelKHR)
  THEN ErrMakeVisibleCap
  ELSE IF num_memory_order_set_bits > 1
  THEN ErrOrderingBits
  ELSE IF And(value, SpvMemorySemanticsMakeAvailableKHRMask) /\
          ~And(value, MakeAvailableOrderMask)
  THEN ErrMakeAvailableOrder
  ELSE IF And(value, SpvMemorySemanticsMakeVisibleKHRMask) /\
          ~And(value, MakeVisibleOrderMask)
  THEN ErrMakeVisibleOrder
  ELSE IF spvIsVulkanEnv(target_env) /\ opcode = SpvOpMemoryBarrier /\
          num_memory_order_set_bits = 0
  THEN ErrVulkanOrder
  ELSE IF spvIsVulkanEnv(target_env) /\ opcode = SpvOpMemoryBarrier /\
          ~And(value, VulkanStorageClassMask)
  THEN ErrVulkanStorageClass
  ELSE IF spvIsVulkanEnv(target_env) /\ opcode = SpvOpControlBarrier /\
          value # {} /\ ~And(value, VulkanStorageClassMask)
  THEN ErrVulkanStorageClassIfNotNone
  ELSE IF And(value, SpvMemorySemanticsMakeAvailableKHRMask \cup
                     SpvMemorySemanticsMakeVisibleKHRMask) /\
          ~And(value, StorageClassMask)
  THEN ErrStorageClass
  ELSE SPV_SUCCESS

\* The part of ValidateMemorySemantics that runs on a constant's value.
ValidateConstantSemantics(opcode, value) ==
  LET num_memory_order_set_bits == CountSetBits(value \cap MemoryOrderMask)
  IN
  IF memory_model = SpvMemoryModelVulkanKHR /\
     And(value, SpvMemorySemanticsSequentiallyConsistentMask)
  THEN ErrSeqCstVulkan
  ELSE IF And(value, SpvMemorySemanticsOutputMemoryKHRMask) /\
          ~HasCapability(SpvCapabilityVulkanMemoryModelKHR)
  THEN ErrOutputMemoryCap
  ELSE IF And(value, SpvMemorySemanticsMakeAvailableKHRMask) /\
          ~HasCapability(SpvCapabilityVulkanMemoryModelKHR)
  THEN ErrMakeAvailableCap
  ELSE IF And(value, SpvMemorySemanticsMakeVisibleKHRMask) /\
          ~HasCapability(SpvCapabilityVulkanMemoryModelKHR)
  THEN ErrMakeVisibleCap
  ELSE IF num_memory_order_set_bits > 1
  THEN ErrOrderingBits
  ELSE IF And(value, SpvMemorySemanticsMakeAvailableKHRMask) /\
          ~And(value, MakeAvailableOrderMask)
  THEN ErrMakeAvailableOrder
  ELSE IF And(value, SpvMemorySemanticsMakeVisibleKHRMask) /\
          ~And(value, MakeVisibleOrderMask)
  THEN ErrMakeVisibleOrder
  ELSE IF spvIsVulkanEnv(target_env) /\ opcode = SpvOpMemoryBarrier /\
          num_memory_order_set_bits = 0
  THEN ErrVulkanOrder
  ELSE IF spvIsVulkanEnv(target_env) /\ opcode = SpvOpMemoryBarrier /\
          ~And(value, VulkanStorageClassMask)
  THEN ErrVulkanStorageClass
  ELSE IF And(value, SpvMemorySemanticsMakeAvailableKHRMask \cup
                     SpvMemorySemanticsMakeVisibleKHRMask) /\
          ~And(value, StorageClassMask)
  THEN ErrStorageClass
  ELSE SPV_SUCCESS

\* Variant: a non-constant operand without Shader falls through to the rules
\* on the value instead of returning.
ValidateMemorySemantics_FallThrough(opcode, id) ==
  LET eval == EvalInt32IfConst(id)
      is_int32 == eval[1]
      is_const_int32 == eval[2]
      value == eval[3]
  IN
  IF ~is_int32 THEN ErrNotInt32
  ELSE IF ~is_const_int32 /\ HasCapability(SpvCapabilityShader)
  THEN ErrNotConstant
  ELSE ValidateConstantSemantics(opcode, value)

ValidateMemorySemantics(opcode, id) ==
  LET eval == EvalInt32IfConst(id)
      is_int32 == eval[1]
      is_const_int32 == eval[2]
      value == eval[3]
  IN
  IF ~is_int32 THEN ErrNotInt32
  ELSE IF ~is_const_int32
  THEN IF HasCapability(SpvCapabilityShader) THEN ErrNotConstant
       ELSE SPV_SUCCESS
  ELSE ValidateConstantSemantics(opcode, value)

-----------------------------------------------------------------------------
(* Types, scope operands and instructions *)

TypeNamedBarrier == [opcode |-> "OpTypeNamedBarrier", width |-> 0]
TypeInt32 == [opcode |-> "OpTypeInt", width |-> 32]
TypeInt64 == [opcode |-> "OpTypeInt", width |-> 64]
TypeFloat32 == [opcode |-> "OpTypeFloat", width |-> 32]
Types == {TypeNamedBarrier, TypeInt32, TypeInt64, TypeFloat32}
NoType == [opcode |-> "OpNop", width |-> 0]

SpvOpTypeNamedBarrier == "OpTypeNamedBarrier"

GetIdOpcode(type) == type.opcode
IsIntScalarType(type) == type.opcode = "OpTypeInt"
GetBitWidth(type) == type.width

\* A scope operand, by what the scope validators say of it.
GoodScope == [valid |-> TRUE]
BadScope == [valid |-> FALSE]
Scopes == {GoodScope, BadScope}

ErrExecutionScope == "ValidateExecutionScope failed"
ErrMemoryScope == "ValidateMemoryScope failed"

ValidateExecutionScope(scope) ==
  IF scope.valid THEN SPV_SUCCESS ELSE ErrExecutionScope

ValidateMemoryScope(scope) ==
  IF scope.valid THEN SPV_SUCCESS ELSE ErrMemoryScope

Functions == {1, 2}

\* The Memory Semantics operands the instructions of a run carry: not an int,
\* not a constant, None, Acquire|UniformMemory, Acquire|Release.
PassSemantics ==
  {NotInt32, NonConstInt32, ConstInt32({}),
   ConstInt32({Acquire, UniformMemory}), ConstInt32({Acquire, Release})}

\* The types a result type or a named-barrier operand is drawn from.
HandleTypes == {TypeNamedBarrier, TypeInt32}

\* An instruction: the opcode, the enclosing function, the definition of the
\* result type (inst->type_id()) and of each operand its case reads; the
\* operands a case does not read are left out (Scopes' GoodScope, NoType,
\* NotInt32 stand for them).
Inst(op, f, rt, es, ms, sm, nb, sc) ==
  [opcode |-> op, function |-> f, type_id |-> rt, execution_scope |-> es,
   memory_scope |-> ms, memory_semantics |-> sm, named_barrier_type |-> nb,
   subgroup_count_type |-> sc]

Instructions ==
  {Inst(SpvOpControlBarrier, f, NoType, es, ms, sm, NoType, NoType) :
     f \in Functions, es \in Scopes, ms \in Scopes, sm \in PassSemantics}
  \cup
  {Inst(SpvOpMemoryBarrier, f, NoType, GoodScope, ms, sm, NoType, NoType) :
     f \in Functions, ms \in Scopes, sm \in PassSemantics}
  \cup
  {Inst(SpvOpNamedBarrierInitialize, f, rt, GoodScope, GoodScope, NotInt32,
        NoType, sc) :
     f \in Functions, rt \in HandleTypes, sc \in Types}
  \cup
  {Inst(SpvOpMemoryNamedBarrier, f, NoType, GoodScope, ms, sm, nb, NoType) :
     f \in Functions, ms \in Scopes, sm \in PassSemantics,
     nb \in HandleTypes}
  \cup
  {Inst(SpvOpNop, f, NoType, GoodScope, GoodScope, NotInt32, NoType, NoType) :
     f \in Functions}

-----------------------------------------------------------------------------
(* BarriersPass *)

ErrResultType == "expected Result Type to be OpTypeNamedBarrier"
ErrSubgroupCount == "expected Subgroup Count to be a 32-bit int"
ErrNamedBarrierType == "expected Named Barrier to be of type OpTypeNamedBarrier"
ErrExecutionModel ==
  "OpControlBarrier requires one of the following Execution Models: TessellationControl, GLCompute or Kernel"

Check(name, result) == [check |-> name, result |-> result]

\* A chain of `if (auto error = check) return error;`: the checks are
\* evaluated in order up to the first that fails, whose error is returned.
RECURSIVE RunChecks(_)
RunChecks(checks) ==
  IF checks = << >>
  THEN [result |-> SPV_SUCCESS, evaluated |-> << >>]
  ELSE IF Head(checks).result # SPV_SUCCESS
  THEN [result |-> Head(checks).result, evaluated |-> <<Head(checks).check>>]
  ELSE LET rest == RunChecks(Tail(checks))
       IN [result |-> rest.result,
           evaluated |-> <<Head(checks).check>> \o rest.evaluated]

\* Variant: the memory scope validated before the execution scope.
ControlBarrierChecks_MemoryScopeFirst(inst) ==
  <<Check("ValidateMemoryScope", ValidateMemoryScope(inst.memory_scope)),
    Check("ValidateExecutionScope",
          ValidateExecutionScope(inst.execution_scope)),
    Check("ValidateMemorySemantics",
          ValidateMemorySemantics(inst.opcode, inst.memory_semantics))>>

ControlBarrierChecks(inst) ==
  <<Check("ValidateExecutionScope",
          ValidateExecutionScope(inst.execution_scope)),
    Check("ValidateMemoryScope", ValidateMemoryScope(inst.memory_scope)),
    Check("ValidateMemorySemantics",
          ValidateMemorySemantics(inst.opcode, inst.memory_semantics))>>

MemoryBarrierChecks(inst) ==
  <<Check("ValidateMemoryScope", ValidateMemoryScope(inst.memory_scope)),
    Check("ValidateMemorySemantics",
          ValidateMemorySemantics(inst.opcode, inst.memory_semantics))>>

\* Variant: Subgroup Count checked before the result type.
NamedBarrierInitializeChecks_CountFirst(inst) ==
  <<Check("SubgroupCount",
          IF ~IsIntScalarType(inst.subgroup_count_type) \/
             GetBitWidth(inst.subgroup_count_type) # 32
          THEN ErrSubgroupCount ELSE SPV_SUCCESS),
    Check("ResultType",
          IF GetIdOpcode(inst.type_id) # SpvOpTypeNamedBarrier
          THEN ErrResultType ELSE SPV_SUCCESS)>>

NamedBarrierInitializeChecks(inst) ==
  <<Check("ResultType",
          IF GetIdOpcode(inst.type_id) # SpvOpTypeNamedBarrier
          THEN ErrResultType ELSE SPV_SUCCESS),
    Check("SubgroupCount",
          IF ~IsIntScalarType(inst.subgroup_count_type) \/
             GetBitWidth(inst.subgroup_count_type) # 32
          THEN ErrSubgroupCount ELSE SPV_SUCCESS)>>

MemoryNamedBarrierChecks(inst) ==
  <<Check("NamedBarrierType",
          IF GetIdOpcode(inst.named_barrier_type) # SpvOpTypeNamedBarrier
          THEN ErrNamedBarrierType ELSE SPV_SUCCESS),
    Check("ValidateMemoryScope", ValidateMemoryScope(inst.memory_scope)),
    Check("ValidateMemorySemantics",
          ValidateMemorySemantics(inst.opcode, inst.memory_semantics))>>

\* The switch of BarriersPass: the result returned and the checks evaluated.
BarriersPassResult(inst) ==
  CASE inst.opcode = SpvOpControlBarrier ->
         RunChecks(ControlBarrierChecks(inst))
    [] inst.opcode = SpvOpMemoryBarrier ->
         RunChecks(MemoryBarrierChecks(inst))
    [] inst.opcode = SpvOpNamedBarrierInitialize ->
         RunChecks(NamedBarrierInitializeChecks(inst))
    [] inst.opcode = SpvOpMemoryNamedBarrier ->
         RunChecks(MemoryNamedBarrierChecks(inst))
    [] OTHER -> RunChecks(<< >>)

\* Variant: the lambda admits only the models its message names.
ControlBarrierLimitation_MessageModels(model) ==
  IF model # "TessellationControl" /\ model # "GLCompute" /\
     model # "Kernel"
  THEN <<FALSE, ErrExecutionModel>>
  ELSE <<TRUE, "">>

\* The lambda BarriersPass registers: <<compatible, message>> for a model.
ControlBarrierLimitation(model) ==
  IF model # "TessellationControl" /\ model # "GLCompute" /\
     model # "Kernel" /\ model # "TaskNV" /\ model # "MeshNV"
  THEN <<FALSE, ErrExecutionModel>>
  ELSE <<TRUE, "">>

\* A registered limitation: the lambda (there is only one) and the
\* instruction it was registered for.
Limitation(id) == [limitation |-> "ControlBarrier", inst |-> id]

\* Variant: the limitation registered after the operand checks, so only when
\* they all pass.
RegisterExecutionModelLimitation_AfterChecks(inst, id) ==
  IF inst.opcode = SpvOpControlBarrier /\
     spvVersionForTargetEnv(target_env) < SPV_SPIRV_VERSION_WORD(1, 3) /\
     BarriersPassResult(inst).result = SPV_SUCCESS
  THEN [registry EXCEPT ![inst.function] = Append(@, Limitation(id))]
  ELSE registry

\* The registries after BarriersPass ran on instruction `inst`, the id-th of
\* the run: the registration comes first in the control barrier's case,
\* before any operand is looked at.
RegisterExecutionModelLimitation(inst, id) ==
  IF inst.opcode = SpvOpControlBarrier /\
     spvVersionForTargetEnv(target_env) < SPV_SPIRV_VERSION_WORD(1, 3)
  THEN [registry EXCEPT ![inst.function] = Append(@, Limitation(id))]
  ELSE registry

NoCall == [kind |-> "none"]

BarriersPass ==
  /\ ninst < MaxInsts
  /\ finalized = {}
  /\ \E inst \in Instructions :
       LET id == ninst + 1
           ret == BarriersPassResult(inst)
       IN /\ registry' = RegisterExecutionModelLimitation(inst, id)
          /\ last' = [kind |-> "call", id |-> id, inst |-> inst,
                      result |-> ret.result, evaluated |-> ret.evaluated]
          /\ ninst' = id
  /\ UNCHANGED <<memory_model, capabilities, target_env, finalized, fin, sem>>

-----------------------------------------------------------------------------
(* Finalization: each function's limitations against the execution models  *)
(* the function is reachable from                                          *)

ExecutionModels ==
  <<"Vertex", "TessellationControl", "Fragment", "GLCompute", "Kernel",
    "TaskNV", "MeshNV">>

ExecutionModelSet == {ExecutionModels[i] : i \in DOMAIN ExecutionModels}

EvalLimitation(limitation, model) ==
  CASE limitation.limitation = "ControlBarrier" ->
         ControlBarrierLimitation(model)

\* The diagnostics of one limitation: one for each model of `models` its
\* predicate returns false for, carrying the message and the instruction.
RECURSIVE LimitationDiags(_, _, _)
LimitationDiags(limitation, models, i) ==
  IF i > Len(ExecutionModels) THEN << >>
  ELSE LET model == ExecutionModels[i]
           verdict == EvalLimitation(limitation, model)
       IN (IF model \in models /\ ~verdict[1]
           THEN <<[message |-> verdict[2], inst |-> limitation.inst,
                   model |-> model]>>
           ELSE << >>)
          \o LimitationDiags(limitation, models, i + 1)

\* finalize(function, reachable models): every limitation, in insertion
\* order, against every model.
RECURSIVE FinalizeDiags(_, _)
FinalizeDiags(limitations, models) ==
  IF limitations = << >> THEN << >>
  ELSE LimitationDiags(Head(limitations), models, 1)
       \o FinalizeDiags(Tail(limitations), models)

ReachableSets ==
  {models \in SUBSET ExecutionModelSet : Cardinality(models) <= MaxReach}

\* Finalization runs after the instruction pass, whose last return value is
\* gone by then, once for each function.
Finalize ==
  /\ \E f \in Functions \ finalized, models \in ReachableSets :
       /\ fin' = [kind |-> "call", function |-> f, models |-> models,
                  diags |-> FinalizeDiags(registry[f], models)]
       /\ finalized' = finalized \cup {f}
  /\ last' = NoCall
  /\ UNCHANGED <<memory_model, capabilities, target_env, registry, ninst, sem>>

-----------------------------------------------------------------------------
(* The specifications *)

ContextInit ==
  /\ memory_model \in MemoryModels
  /\ capabilities \in SUBSET Capabilities
  /\ target_env \in TargetEnvs

Init ==
  /\ ContextInit
  /\ registry = [f \in Functions |-> << >>]
  /\ ninst = 0
  /\ last = NoCall
  /\ finalized = {}
  /\ fin = NoCall
  /\ sem = NoCall

Next == BarriersPass \/ Finalize

Spec == Init /\ [][Next]_vars

-----------------------------------------------------------------------------
(* ValidateMemorySemantics called on its own, once, on any operand *)

SemanticsOperands ==
  {NotInt32, NonConstInt32} \cup {ConstInt32(v) : v \in SUBSET (SemanticsBits \cup OtherBits)}

CheckSemantics ==
  /\ sem = NoCall
  /\ \E opcode \in SemanticsOpcodes, id \in SemanticsOperands :
       sem' = [kind |-> "call", opcode |-> opcode, id |-> id,
               result |-> ValidateMemorySemantics(opcode, id)]
  /\ UNCHANGED <<memory_model, capabilities, target_env, registry, ninst,
                 last, finalized, fin>>

SemNext == CheckSemantics

SemSpec == Init /\ [][SemNext]_vars

-----------------------------------------------------------------------------
(* The rule table of the memory-semantics validator as the specification   *)
(* words it: ten rules over a constant value, each with its diagnostic     *)

OrderingAxis == {Acquire, Release, AcquireRelease, SequentiallyConsistent}
VulkanStorageAxis ==
  {UniformMemory, WorkgroupMemory, ImageMemory, OutputMemoryKHR}
StorageAxis ==
  {UniformMemory, SubgroupMemory, WorkgroupMemory, CrossWorkgroupMemory,
   AtomicCounterMemory, ImageMemory, OutputMemoryKHR}

RuleViolated(rule, opcode, v) ==
  CASE rule = 1 -> memory_model = "VulkanKHR" /\ SequentiallyConsistent \in v
    [] rule = 2 -> OutputMemoryKHR \in v /\
                   "VulkanMemoryModelKHR" \notin capabilities
    [] rule = 3 -> MakeAvailableKHR \in v /\
                   "VulkanMemoryModelKHR" \notin capabilities
    [] rule = 4 -> MakeVisibleKHR \in v /\
                   "VulkanMemoryModelKHR" \notin capabilities
    [] rule = 5 -> Cardinality(v \cap OrderingAxis) > 1
    [] rule = 6 -> MakeAvailableKHR \in v /\ Release \notin v /\
                   AcquireRelease \notin v
    [] rule = 7 -> MakeVisibleKHR \in v /\ Acquire \notin v /\
                   AcquireRelease \notin v
    [] rule = 8 -> target_env \in {"VULKAN_1_0", "VULKAN_1_1"} /\
                   opcode = "OpMemoryBarrier" /\ v \cap OrderingAxis = {}
    [] rule = 9 -> target_env \in {"VULKAN_1_0", "VULKAN_1_1"} /\
                   opcode = "OpMemoryBarrier" /\ v \cap VulkanStorageAxis = {}
    [] rule = 10 -> (MakeAvailableKHR \in v \/ MakeVisibleKHR \in v) /\
                    v \cap StorageAxis = {}

RuleError ==
  <<ErrSeqCstVulkan, ErrOutputMemoryCap, ErrMakeAvailableCap,
    ErrMakeVisibleCap, ErrOrderingBits, ErrMakeAvailableOrder,
    ErrMakeVisibleOrder, ErrVulkanOrder, ErrVulkanStorageClass,
    ErrStorageClass>>

ViolatedRules(opcode, v) ==
  {rule \in DOMAIN RuleError : RuleViolated(rule, opcode, v)}

FirstOf(rules) == CHOOSE r \in rules : \A q \in rules : r <= q

\* The call under examination is one on a 32-bit constant.
OnConstant == sem.kind = "call" /\ sem.id.kind = "const_int32"

\* C3: on every constant value, in every context and for every opcode,
\* ValidateMemorySemantics returns the diagnostic of the first violated rule
\* of the ten, in their fixed order, and success exactly when none is
\* violated; MakeAvailableKHR alone without the capability fails with the
\* capability diagnostic, not the paired-ordering one.
C3_FirstViolatedRule ==
  OnConstant =>
    LET violated == ViolatedRules(sem.opcode, sem.id.value)
    IN /\ sem.result =
            IF violated = {} THEN SPV_SUCCESS ELSE RuleError[FirstOf(violated)]
       /\ (sem.result = SPV_SUCCESS) <=> (violated = {})
       /\ (sem.id.value = {MakeAvailableKHR} /\
           "VulkanMemoryModelKHR" \notin capabilities)
            => sem.result = ErrMakeAvailableCap

\* MakeAvailableKHR alone, no capability: rules 3, 6 and 10 are all violated
\* and rule 3's diagnostic is the one returned.
C3_Witness ==
  /\ OnConstant
  /\ sem.id.value = {MakeAvailableKHR}
  /\ "VulkanMemoryModelKHR" \notin capabilities
  /\ {3, 6, 10} \subseteq ViolatedRules(sem.opcode, sem.id.value)
  /\ sem.result = ErrMakeAvailableCap

\* C4 as stated: every value with more than one ordering-axis bit set gets
\* the conflicting-ordering-bits diagnostic, whatever else holds.
C4_AlwaysOrderingBits ==
  (OnConstant /\ Cardinality(sem.id.value \cap OrderingAxis) > 1)
    => sem.result = ErrOrderingBits

\* C4, amended: a constant value with more than one ordering-axis bit set
\* gets the conflicting-ordering-bits diagnostic unless one of the four
\* earlier rules is violated (SequentiallyConsistent under the Vulkan memory
\* model; OutputMemoryKHR, MakeAvailableKHR or MakeVisibleKHR without the
\* capability), in which case it gets that rule's diagnostic; the storage
\* class bits and the bits outside the three axes never matter.
C4_OrderingBitsAfterEarlierRules ==
  (OnConstant /\ Cardinality(sem.id.value \cap OrderingAxis) > 1)
    => LET earlier == ViolatedRules(sem.opcode, sem.id.value) \cap {1, 2, 3, 4}
       IN sem.result =
            IF earlier = {} THEN ErrOrderingBits
            ELSE RuleError[FirstOf(earlier)]

\* Acquire|SequentiallyConsistent where no earlier rule applies.
C4_Witness ==
  /\ OnConstant
  /\ sem.id.value =
       {Acquire, SequentiallyConsistent, AtomicCounterMemory, UnusedBit}
  /\ memory_model # "VulkanKHR"
  /\ sem.result = ErrOrderingBits

\* C5 as stated: every value with MakeAvailableKHR and neither Release nor
\* AcquireRelease gets the paired-ordering-bit diagnostic.
C5_AlwaysPairedOrderingBit ==
  (OnConstant /\ MakeAvailableKHR \in sem.id.value /\
   Release \notin sem.id.value /\ AcquireRelease \notin sem.id.value)
    => sem.result = ErrMakeAvailableOrder

\* C5, amended: a constant value with MakeAvailableKHR and neither Release
\* nor AcquireRelease gets the paired-ordering-bit diagnostic provided the
\* capability is present, SequentiallyConsistent is not used under the
\* Vulkan memory model and at most one ordering bit is set (otherwise the
\* earlier rule's diagnostic is returned); and no value with AcquireRelease
\* set ever gets MakeAvailableKHR's paired-ordering-bit diagnostic.
C5_PairedOrderingBitAfterEarlierRules ==
  /\ (OnConstant /\ MakeAvailableKHR \in sem.id.value /\
      Release \notin sem.id.value /\ AcquireRelease \notin sem.id.value)
       => LET earlier ==
                ViolatedRules(sem.opcode, sem.id.value) \cap {1, 2, 3, 4, 5}
          IN /\ earlier = {} => sem.result = ErrMakeAvailableOrder
             /\ earlier # {} => sem.result = RuleError[FirstOf(earlier)]
             /\ earlier = {} <=>
                  /\ "VulkanMemoryModelKHR" \in capabilities
                  /\ ~(memory_model = "VulkanKHR" /\
                       SequentiallyConsistent \in sem.id.value)
                  /\ Cardinality(sem.id.value \cap OrderingAxis) <= 1
  /\ (OnConstant /\ MakeAvailableKHR \in sem.id.value /\
      AcquireRelease \in sem.id.value)
       => sem.result # ErrMakeAvailableOrder

\* MakeAvailableKHR|Acquire|UniformMemory with the capability present.
C5_Witness ==
  /\ OnConstant
  /\ sem.id.value = {MakeAvailableKHR, Acquire, UniformMemory}
  /\ "VulkanMemoryModelKHR" \in capabilities
  /\ sem.result = ErrMakeAvailableOrder

\* C6: a constant with SequentiallyConsistent set under the Vulkan memory
\* model always gets the incompatible-memory-model diagnostic, whatever the
\* other bits, the capabilities, the target environment and the opcode.
C6_SeqCstUnderVulkanModel ==
  (OnConstant /\ SequentiallyConsistent \in sem.id.value /\
   memory_model = "VulkanKHR")
    => sem.result = ErrSeqCstVulkan

\* SequentiallyConsistent with a second ordering bit and a modifier whose
\* capability is missing: three rules violated, the first reported.
C6_Witness ==
  /\ OnConstant
  /\ sem.id.value = {SequentiallyConsistent, Release, MakeVisibleKHR}
  /\ memory_model = "VulkanKHR"
  /\ "VulkanMemoryModelKHR" \notin capabilities
  /\ sem.result = ErrSeqCstVulkan

\* C7: a 32-bit integer operand that is no constant succeeds when the Shader
\* capability is absent and gets the must-be-constant diagnostic when it is
\* present, whatever the memory model, the Vulkan-memory-model capability,
\* the target environment and the opcode.
C7_NonConstant ==
  (sem.kind = "call" /\ sem.id.kind = "int32")
    => sem.result =
         IF "Shader" \in capabilities THEN ErrNotConstant ELSE SPV_SUCCESS

\* A non-constant operand of a memory barrier in a Vulkan environment, under
\* the Vulkan memory model, without Shader: success.
C7_Witness ==
  /\ sem.kind = "call"
  /\ sem.id.kind = "int32"
  /\ sem.opcode = "OpMemoryBarrier"
  /\ target_env = "VULKAN_1_0"
  /\ memory_model = "VulkanKHR"
  /\ capabilities = {}
  /\ sem.result = SPV_SUCCESS

\* C10: in a Vulkan environment a constant that passes rules 1 to 7 fails, on
\* a memory barrier, with the ordering-bit diagnostic when no ordering bit is
\* set and otherwise with the Vulkan storage class diagnostic when none of
\* UniformMemory, WorkgroupMemory, ImageMemory, OutputMemoryKHR is set; on a
\* control barrier or a named-barrier memory operation neither diagnostic is
\* ever returned, and a control barrier with a non-zero value, no
\* Vulkan-supported storage class and no modifier bit succeeds.
C10_VulkanMemoryBarrierOnly ==
  (OnConstant /\ target_env \in {"VULKAN_1_0", "VULKAN_1_1"} /\
   ViolatedRules(sem.opcode, sem.id.value) \cap {1, 2, 3, 4, 5, 6, 7} = {})
    => LET v == sem.id.value
       IN /\ (sem.opcode = "OpMemoryBarrier" /\ v \cap OrderingAxis = {})
               => sem.result = ErrVulkanOrder
          /\ (sem.opcode = "OpMemoryBarrier" /\ v \cap OrderingAxis # {} /\
              v \cap VulkanStorageAxis = {})
               => sem.result = ErrVulkanStorageClass
          /\ sem.opcode # "OpMemoryBarrier"
               => sem.result \notin {ErrVulkanOrder, ErrVulkanStorageClass}
          /\ (sem.opcode = "OpControlBarrier" /\ v # {} /\
              v \cap VulkanStorageAxis = {} /\
              MakeAvailableKHR \notin v /\ MakeVisibleKHR \notin v)
               => sem.result = SPV_SUCCESS

\* Acquire with only the storage classes Vulkan does not count, on a memory
\* barrier in a Vulkan environment.
C10_Witness ==
  /\ OnConstant
  /\ target_env = "VULKAN_1_1"
  /\ sem.opcode = "OpMemoryBarrier"
  /\ sem.id.value =
       {Acquire, SubgroupMemory, CrossWorkgroupMemory, AtomicCounterMemory}
  /\ sem.result = ErrVulkanStorageClass

-----------------------------------------------------------------------------
(* Claims about BarriersPass and the limitation registries *)

VersionBelow13 == target_env \in {"UNIVERSAL_1_2", "VULKAN_1_0"}

\* C1: a BarriersPass call appends exactly one limitation, to the registry of
\* the instruction's function, if and only if the opcode is OpControlBarrier
\* and the version is below 1.3, whatever the call returns; any other call
\* leaves every registry as it was.
C1_RegistrationEffect ==
  [][ninst' # ninst =>
       LET call == last'
           f == call.inst.function
       IN IF call.inst.opcode = "OpControlBarrier" /\ VersionBelow13
          THEN /\ Len(registry'[f]) = Len(registry[f]) + 1
               /\ SubSeq(registry'[f], 1, Len(registry[f])) = registry[f]
               /\ registry'[f][Len(registry'[f])].inst = call.id
               /\ \A g \in Functions \ {f} : registry'[g] = registry[g]
          ELSE registry' = registry]_vars

\* A control barrier below 1.3 whose execution scope was rejected, and whose
\* limitation is in its function's registry all the same.
C1_Witness ==
  /\ last.kind = "call"
  /\ last.inst.opcode = "OpControlBarrier"
  /\ VersionBelow13
  /\ last.result = ErrExecutionScope
  /\ Len(registry[last.inst.function]) = 1
  /\ registry[last.inst.function][1].inst = last.id

DiagsFor(diags, model) == {i \in DOMAIN diags : diags[i].model = model}

C8_ResultTypeBeforeSubgroupCount ==
  (last.kind = "call" /\ last.inst.opcode = "OpNamedBarrierInitialize") =>
    LET named == last.inst.type_id.opcode = "OpTypeNamedBarrier"
        int32 == last.inst.subgroup_count_type = TypeInt32
    IN /\ ~named => last.result = ErrResultType
       /\ (last.result = ErrSubgroupCount) <=> (named /\ ~int32)
       /\ (last.result = SPV_SUCCESS) <=> (named /\ int32)

\* Both checks would fail; the result-type diagnostic is the one returned.
C8_Witness ==
  /\ last.kind = "call"
  /\ last.inst.opcode = "OpNamedBarrierInitialize"
  /\ last.inst.type_id = TypeInt32
  /\ last.inst.subgroup_count_type = TypeFloat32
  /\ last.result = ErrResultType

\* The checks of an opcode in the order the specification fixes, each with
\* the verdict it has on the instruction.
ExpectedChecks(inst) ==
  LET scope(s, err) == IF s.valid THEN SPV_SUCCESS ELSE err
      es == <<"ValidateExecutionScope",
              scope(inst.execution_scope, ErrExecutionScope)>>
      ms == <<"ValidateMemoryScope", scope(inst.memory_scope, ErrMemoryScope)>>
      sm == <<"ValidateMemorySemantics",
              ValidateMemorySemantics(inst.opcode, inst.memory_semantics)>>
      nb == <<"NamedBarrierType",
              IF inst.named_barrier_type.opcode = "OpTypeNamedBarrier"
              THEN SPV_SUCCESS ELSE ErrNamedBarrierType>>
  IN CASE inst.opcode = "OpControlBarrier" -> <<es, ms, sm>>
       [] inst.opcode = "OpMemoryBarrier" -> <<ms, sm>>
       [] inst.opcode = "OpMemoryNamedBarrier" -> <<nb, ms, sm>>
       [] OTHER -> << >>

\* C9: BarriersPass returns the diagnostic of the first failing check of the
\* opcode's fixed order and evaluates no check after it: execution scope,
\* memory scope, memory semantics for the control barrier; memory scope,
\* memory semantics for the memory barrier; named-barrier type, memory scope,
\* memory semantics for the named-barrier memory operation; an opcode outside
\* the family returns success with nothing evaluated.
C9_FirstFailingCheck ==
  (last.kind = "call" /\ last.inst.opcode # "OpNamedBarrierInitialize") =>
    LET checks == ExpectedChecks(last.inst)
        failing == {i \in DOMAIN checks : checks[i][2] # SPV_SUCCESS}
        stop == IF failing = {} THEN Len(checks) ELSE FirstOf(failing)
    IN /\ last.result =
            IF failing = {} THEN SPV_SUCCESS ELSE checks[stop][2]
       /\ last.evaluated = [i \in 1..stop |-> checks[i][1]]
       /\ last.inst.opcode = "OpNop" =>
            (last.result = SPV_SUCCESS /\ last.evaluated = << >>)

\* A control barrier all three of whose operands are bad: only the execution
\* scope is looked at.
C9_Witness ==
  /\ last.kind = "call"
  /\ last.inst.opcode = "OpControlBarrier"
  /\ ~last.inst.execution_scope.valid
  /\ ~last.inst.memory_scope.valid
  /\ last.inst.memory_semantics = NotInt32
  /\ last.result = ErrExecutionScope
  /\ last.evaluated = <<"ValidateExecutionScope">>

====
